---------------------------- MODULE Spec2Model ----------------------------
(***************************************************************************)
(* R8it ai-backend: the GPS pipeline (EXIF extraction, DMS conversion,     *)
(* reverse geocoding with retry, place-type normalisation) and the vision  *)
(* pipeline (reply sanitation and defaulting), modelled from               *)
(*   src/src/utils/location_service.py                                     *)
(*   src/src/utils/gps_extractor.py                                        *)
(*   src/src/routes/location.py                                            *)
(*   src/src/routes/image_analysis.py                                      *)
(*                                                                         *)
(* Python values are records with a "kind" field, so that None, a fault    *)
(* and a value can be compared.  Floats are exact rationals.               *)
(***************************************************************************)
EXTENDS Integers, Sequences, FiniteSets, TLC

VARIABLES
    \* ---- reverse geocoding (location_service.py, routes/location.py)
    gpc,             \* position: "idle", "reverse", "sleep", "done"
    caller,          \* the route that called get_address_from_coordinates
    coords,          \* <<latitude, longitude>> of the call
    attempt,         \* loop variable of _reverse_geocode_with_retry
    outcomes,        \* provider outcomes so far, one per geolocator.reverse call
    sleeps,          \* number of time.sleep(1) calls so far
    location,        \* what _reverse_geocode_with_retry returned (or that it raised)
    location_result, \* what get_address_from_coordinates returned
    response,        \* the HTTP answer of the route
    lrequest,        \* the request as extract_location / geocode_coordinates see it
    \* ---- DMS conversion applied to one input (gps_extractor.py)
    conv,            \* [fn, value, ref, done, out]
    \* ---- the sanitizer applied to one reply, bare and fenced (image_analysis.py)
    fenced,          \* [tag, sep1, payload, sep2, json, done, plain, wrapped]
    \* ---- extract_gps_from_image (gps_extractor.py)
    xpc,             \* position: "idle", "A", "B", "done"
    image,           \* the image bytes, as what each EXIF reader makes of them
    consulted,       \* the strategies run so far, in order
    yieldA,          \* lat, lon of strategy A (line 42), <<None, None>> before
    gps_result,      \* what extract_gps_from_image returned
    \* ---- POST /analyze-image (routes/image_analysis.py)
    vpc,             \* position: "idle", "vision", "done"
    request,         \* the request as request.get_json() and data['image'] see it
    vision_calls,    \* calls of client.chat.completions.create for this request
    reply,           \* what the vision call did
    analysis,        \* what analyze_image_with_gpt4_vision returned
    vresponse        \* the HTTP answer of analyze_image

geoVars == <<gpc, caller, coords, attempt, outcomes, sleeps, location,
             location_result, response, lrequest>>

gpsVars == <<xpc, image, consulted, yieldA, gps_result>>

visVars == <<vpc, request, vision_calls, reply, analysis, vresponse>>

vars == <<geoVars, conv, fenced, gpsVars, visVars>>

None == [kind |-> "None"]

(***************************************************************************)
(* DMS conversion (gps_extractor.py)                                       *)
(*                                                                         *)
(* A Python float is the exact rational num/den, den > 0.                  *)
(***************************************************************************)

RECURSIVE GCD(_, _)
GCD(a, b) == IF b = 0 THEN a ELSE GCD(b, a % b)

Abs(n) == IF n < 0 THEN 0 - n ELSE n

\* the float n/d (d > 0) in lowest terms, so that equal floats are equal records
Float(n, d) ==
    LET g == GCD(Abs(n), d)
    IN  [kind |-> "float",
         num |-> IF n < 0 THEN 0 - (Abs(n) \div g) ELSE n \div g,
         den |-> d \div g]

\* a + b
FAdd(a, b) == Float(a.num * b.den + b.num * a.den, a.den * b.den)
\* a / k for a positive literal k (60.0, 3600.0)
FDivBy(a, k) == Float(a.num, a.den * k)
\* -a
FNeg(a) == Float(0 - a.num, a.den)

\* float(x) succeeds on a number (int, float, IFDRational) and raises on
\* anything else (str, tuple, None)
FloatOk(x) == x.kind = "float"

\* _dms_to_decimal(dms, ref): dms is the sequence PIL gives for GPSLatitude or
\* GPSLongitude (dms[0] is dms[1] here); every exception gives None
_dms_to_decimal_NoNegate(dms, ref) ==
    IF Len(dms) < 3 \/ \E i \in 1..3 : ~FloatOk(dms[i])
    THEN None
    ELSE FAdd(FAdd(dms[1], FDivBy(dms[2], 60)), FDivBy(dms[3], 3600))

_dms_to_decimal(dms, ref) ==
    IF Len(dms) < 3 \/ \E i \in 1..3 : ~FloatOk(dms[i])
    THEN None
    ELSE LET decimal == FAdd(FAdd(dms[1], FDivBy(dms[2], 60)), FDivBy(dms[3], 3600))
         IN  IF ref \in {"S", "W"} THEN FNeg(decimal) ELSE decimal

\* float(r.num) / float(r.den) succeeds on an exifread Ratio with a non-zero
\* denominator; a value without .num/.den raises AttributeError and a zero
\* denominator raises ZeroDivisionError
RatioOk(r) == r.kind = "Ratio" /\ r.den # 0

\* _convert_to_degrees(value, ref): values is value.values, the list exifread
\* gives for the tag; refvalues is ref.values, a string ("" has no [0]);
\* every exception gives None
_convert_to_degrees(values, refvalues) ==
    IF Len(values) < 3 \/ \E i \in 1..3 : ~RatioOk(values[i])
    THEN None
    ELSE LET d == Float(values[1].num, values[1].den)
             m == Float(values[2].num, values[2].den)
             s == Float(values[3].num, values[3].den)
             decimal == FAdd(FAdd(d, FDivBy(m, 60)), FDivBy(s, 3600))
         IN  IF refvalues = "" THEN None
             ELSE IF refvalues \in {"S", "W"} THEN FNeg(decimal)
             ELSE decimal

\* ---- inputs of the conversion
MaxSmall == 1
MaxDen == 2
NumVals == (0..MaxSmall) \cup {30, 40}
RefVals == {"N", "S", "E", "W", "X", ""}

NotANumber == [kind |-> "str"]
PilComponents == {Float(n, d) : n \in NumVals, d \in 1..MaxDen} \cup {NotANumber}
ExifComponents ==
    {[kind |-> "Ratio", num |-> n, den |-> d] : n \in NumVals, d \in 0..MaxDen}
        \cup {NotANumber}

SeqsUpTo3(S) ==
    {<<>>} \cup {<<a>> : a \in S} \cup {<<a, b>> : a \in S, b \in S}
        \cup {<<a, b, c>> : a \in S, b \in S, c \in S}

(***************************************************************************)
(* EXIF GPS extraction (gps_extractor.py)                                  *)
(***************************************************************************)

\* a tag value as a reader hands it over; an absent tag is None
Tag(v) == [kind |-> "tag", values |-> v]

\* Python truth of what gps_info.get(...) gives: None, an empty tuple and an
\* empty string are false
TruthyDms(t) == t.kind = "tag" /\ Len(t.values) > 0
TruthyRef(t) == t.kind = "tag" /\ t.values # ""

\* the gps_info dict of lines 33-39: empty when exif_data has no GPSInfo
EmptyGpsInfo ==
    [kind |-> "empty", GPSLatitude |-> None, GPSLatitudeRef |-> None,
     GPSLongitude |-> None, GPSLongitudeRef |-> None]

\* _convert_gps_to_decimal(gps_info): <<latitude, longitude>>
_convert_gps_to_decimal(gps_info) ==
    IF /\ TruthyDms(gps_info.GPSLatitude) /\ TruthyDms(gps_info.GPSLongitude)
       /\ TruthyRef(gps_info.GPSLatitudeRef) /\ TruthyRef(gps_info.GPSLongitudeRef)
    THEN <<_dms_to_decimal(gps_info.GPSLatitude.values, gps_info.GPSLatitudeRef.values),
           _dms_to_decimal(gps_info.GPSLongitude.values, gps_info.GPSLongitudeRef.values)>>
    ELSE <<None, None>>

Found(lat, lon) ==
    [kind |-> "dict", has_gps |-> TRUE, latitude |-> lat, longitude |-> lon,
     error |-> ""]
NotFound(err) ==
    [kind |-> "dict", has_gps |-> FALSE, latitude |-> None, longitude |-> None,
     error |-> err]
Raised == [kind |-> "raised", has_gps |-> FALSE, latitude |-> None,
           longitude |-> None, error |-> "fault"]

\* lines 29-42: lat, lon of strategy A, <<None, None>> when the image has no
\* EXIF or no GPS block
StrategyAYield(pil) ==
    IF pil.kind = "exif" /\ pil.gps_info.kind # "empty"
    THEN _convert_gps_to_decimal(pil.gps_info)
    ELSE <<None, None>>

\* UsableA of a strategy A that never returns and always falls through
UsableA_FallThrough(ll) == FALSE

\* line 43: does strategy A return its coordinate

UsableA(ll) == ll[1] # None /\ ll[2] # None

\* lines 51-72: the outcome of strategy B inside the try block; the converted
\* values are returned as they are, None included
StrategyB(ex) ==
    IF ex.kind = "fault" THEN Raised
    ELSE IF /\ ex.GPSLatitude # None /\ ex.GPSLatitudeRef # None
            /\ ex.GPSLongitude # None /\ ex.GPSLongitudeRef # None
    THEN Found(_convert_to_degrees(ex.GPSLatitude.values, ex.GPSLatitudeRef.values),
               _convert_to_degrees(ex.GPSLongitude.values, ex.GPSLongitudeRef.values))
    ELSE NotFound("Aucune donnee GPS trouvee dans l'image")

\* CatchAll without the except clause: the fault leaves the function
CatchAll_Missing(r) == r

\* the except Exception clause around the whole body (lines 74-79)

CatchAll(r) ==
    IF r.kind = "raised"
    THEN NotFound("Erreur lors de l'extraction GPS: " \o r.error)
    ELSE r

\* ---- inputs of the extraction: what PIL and exifread make of the bytes
PilDmsSamples ==
    {None, Tag(<<>>),
     Tag(<<Float(40, 1), Float(30, 1)>>),
     Tag(<<Float(40, 1), NotANumber, Float(0, 1)>>),
     Tag(<<Float(40, 1), Float(30, 1), Float(0, 1)>>),
     Tag(<<Float(2, 1), Float(21, 1), Float(8, 1)>>)}

Ratio(n, d) == [kind |-> "Ratio", num |-> n, den |-> d]

ExifDmsSamples ==
    {None,
     Tag(<<Ratio(40, 1), Ratio(30, 1)>>),
     Tag(<<Ratio(40, 1), Ratio(30, 0), Ratio(0, 1)>>),
     Tag(<<Ratio(48, 1), Ratio(51, 1), Ratio(24, 1)>>),
     Tag(<<Ratio(2, 1), Ratio(21, 1), Ratio(8, 1)>>)}

LatRefs == {None, Tag("N"), Tag("S")}
LonRefs == {None, Tag("W")}

\* Image.open/_getexif raise; _getexif() is None; or an EXIF dict, whose GPS
\* block is absent or holds any of the four tags
PilOutcomes ==
    {[kind |-> "fault", gps_info |-> EmptyGpsInfo],
     [kind |-> "noexif", gps_info |-> EmptyGpsInfo],
     [kind |-> "exif", gps_info |-> EmptyGpsInfo]}
    \cup
    {[kind |-> "exif",
      gps_info |-> [kind |-> "dict", GPSLatitude |-> la, GPSLatitudeRef |-> lar,
                    GPSLongitude |-> lo, GPSLongitudeRef |-> lor]] :
        la \in PilDmsSamples, lar \in LatRefs, lo \in PilDmsSamples, lor \in LonRefs}

\* exifread.process_file raises, or gives tags with any of the four GPS tags
ExifreadOutcomes ==
    {[kind |-> "fault", GPSLatitude |-> None, GPSLatitudeRef |-> None,
      GPSLongitude |-> None, GPSLongitudeRef |-> None]}
    \cup
    {[kind |-> "tags", GPSLatitude |-> la, GPSLatitudeRef |-> lar,
      GPSLongitude |-> lo, GPSLongitudeRef |-> lor] :
        la \in ExifDmsSamples, lar \in LatRefs, lo \in ExifDmsSamples, lor \in LonRefs}

NoImage ==
    [pil |-> [kind |-> "noexif", gps_info |-> EmptyGpsInfo],
     exifread |-> [kind |-> "tags", GPSLatitude |-> None, GPSLatitudeRef |-> None,
                   GPSLongitude |-> None, GPSLongitudeRef |-> None]]

GpsIdle ==
    /\ xpc = "idle"
    /\ image = NoImage
    /\ consulted = <<>>
    /\ yieldA = <<None, None>>
    /\ gps_result = NotFound("")

\* extract_gps_from_image(image_data) is called
ExtractGpsFromImage ==
    /\ xpc = "idle"
    /\ \E p \in PilOutcomes, e \in ExifreadOutcomes : image' = [pil |-> p, exifread |-> e]
    /\ xpc' = "A"
    /\ consulted' = <<>>
    /\ yieldA' = <<None, None>>
    /\ gps_result' = NotFound("")
    /\ UNCHANGED <<geoVars, conv, fenced, visVars>>

\* a strategy A that gives up when it has no coordinate: NotFound is returned
\* and strategy B never runs
RunStrategyA_GiveUp ==
    /\ xpc = "A"
    /\ consulted' = Append(consulted, "A")
    /\ IF image.pil.kind = "fault"
       THEN /\ gps_result' = CatchAll(Raised)
            /\ UNCHANGED yieldA
       ELSE /\ yieldA' = StrategyAYield(image.pil)
            /\ IF UsableA(StrategyAYield(image.pil))
               THEN gps_result' = Found(StrategyAYield(image.pil)[1],
                                        StrategyAYield(image.pil)[2])
               ELSE gps_result' = NotFound("Aucune donnee GPS trouvee dans l'image")
    /\ xpc' = "done"
    /\ UNCHANGED <<geoVars, conv, fenced, visVars, image>>

\* lines 28-48: strategy A (PIL); returns when it has both coordinates, falls
\* through to strategy B otherwise, and a fault goes to the except clause
RunStrategyA ==
    /\ xpc = "A"
    /\ consulted' = Append(consulted, "A")
    /\ IF image.pil.kind = "fault"
       THEN /\ gps_result' = CatchAll(Raised)
            /\ xpc' = "done"
            /\ UNCHANGED yieldA
       ELSE /\ yieldA' = StrategyAYield(image.pil)
            /\ IF UsableA(StrategyAYield(image.pil))
               THEN /\ gps_result' = Found(StrategyAYield(image.pil)[1],
                                           StrategyAYield(image.pil)[2])
                    /\ xpc' = "done"
               ELSE /\ xpc' = "B"
                    /\ UNCHANGED gps_result
    /\ UNCHANGED <<geoVars, conv, fenced, visVars, image>>

\* lines 50-72: strategy B (exifread) and the final return
RunStrategyB ==
    /\ xpc = "B"
    /\ consulted' = Append(consulted, "B")
    /\ gps_result' = CatchAll(StrategyB(image.exifread))
    /\ xpc' = "done"
    /\ UNCHANGED <<geoVars, conv, fenced, visVars, image, yieldA>>

\* the caller has the result; the next call can come
GpsFinish ==
    /\ xpc = "done"
    /\ xpc' = "idle"
    /\ image' = NoImage
    /\ consulted' = <<>>
    /\ yieldA' = <<None, None>>
    /\ gps_result' = NotFound("")
    /\ UNCHANGED <<geoVars, conv, fenced, visVars>>

(***************************************************************************)
(* Vision guess: analyze_image_with_gpt4_vision and POST /analyze-image    *)
(* (routes/image_analysis.py)                                              *)
(*                                                                         *)
(* A reply text is a sequence of characters; the character "J" stands for  *)
(* one complete JSON value (a slice that cuts into it leaves no JSON) and  *)
(* "x" for any other character.  The value "J" parses to is reply.json.    *)
(***************************************************************************)

\* "sp" is a blank, "nl" a line feed
Whitespace == {"sp", "nl"}

RECURSIVE LStrip(_)
LStrip(t) == IF t # <<>> /\ Head(t) \in Whitespace THEN LStrip(Tail(t)) ELSE t

RECURSIVE RStrip(_)
RStrip(t) ==
    IF t # <<>> /\ t[Len(t)] \in Whitespace THEN RStrip(SubSeq(t, 1, Len(t) - 1)) ELSE t

\* str.strip()
Strip(t) == RStrip(LStrip(t))

\* str.startswith(prefix)
StartsWith(t, prefix) ==
    Len(t) >= Len(prefix) /\ SubSeq(t, 1, Len(prefix)) = prefix

\* t[a:-3]
SliceOff(t, a) == SubSeq(t, a + 1, Len(t) - 3)

\* "bq" is the backquote character
Fence == <<"bq", "bq", "bq">>
FenceJson == Fence \o <<"j", "s", "o", "n">>

\* lines 110-113: the fence stripping
StripFence(t) ==
    IF StartsWith(t, FenceJson) THEN SliceOff(t, 7)
    ELSE IF StartsWith(t, Fence) THEN SliceOff(t, 3)
    ELSE t

\* json.loads(text) succeeds when the text is one JSON value, whitespace
\* around it allowed
JsonLoadsOk(t) == Strip(t) = <<"J">>

ScalarFields ==
    {"businessName", "businessType", "address", "category", "icon",
     "suggestedRating", "suggestedReview", "confidence"}

Absent == "<absent>"
NoSuggestions == [kind |-> "absent", items |-> <<>>, len |-> 0]
List(items) == [kind |-> "list", items |-> items, len |-> Len(items)]

\* the first arguments of the setdefault calls, lines 119-128
Defaults ==
    [f \in ScalarFields |->
        CASE f = "businessName"    -> "Lieu detecte"
          [] f = "businessType"    -> "Experience"
          [] f = "address"         -> "Localisation detectee"
          [] f = "category"        -> "Experience/Service"
          [] f = "icon"            -> "pin"
          [] f = "suggestedRating" -> "4"
          [] f = "suggestedReview" -> ""
          [] f = "confidence"      -> "0.8"]

PositiveFiller == <<"sympa", "correct", "pas mal">>
NegativeFiller == <<"bof", "moyen", "cher">>

\* a fault raised inside the try block, with str(e)
Fault(msg) == [kind |-> "raised", error |-> msg]
Ok(v) == [kind |-> "ok", value |-> v]

\* lines 131-134 (and 136-139): a suggestion list brought to 3 entries.  A
\* list is extended from the filler or cut; a string has a len and slices
\* but no extend; a number, a bool or null has no len
NormalizeSuggestions_NoTruncate(sug, filler) ==
    IF sug.kind = "scalar" THEN Fault("object has no len()")
    ELSE IF sug.len < 3
    THEN IF sug.kind = "list"
         THEN Ok(List(sug.items \o SubSeq(filler, 1, 3 - sug.len)))
         ELSE Fault("str object has no attribute extend")
    ELSE Ok(sug)

NormalizeSuggestions(sug, filler) ==
    IF sug.kind = "scalar" THEN Fault("object has no len()")
    ELSE IF sug.len < 3
    THEN IF sug.kind = "list"
         THEN Ok(List(sug.items \o SubSeq(filler, 1, 3 - sug.len)))
         ELSE Fault("str object has no attribute extend")
    ELSE IF sug.len > 3
    THEN IF sug.kind = "list"
         THEN Ok(List(SubSeq(sug.items, 1, 3)))
         ELSE Ok([sug EXCEPT !.len = 3])
    ELSE Ok(sug)

\* dict.setdefault(key, default) on a suggestion list
SetDefaultList(sug, default) == IF sug.kind = "absent" THEN List(default) ELSE sug

\* lines 146-158: the fallback record of the except clause
Fallback(msg) ==
    [scalars |-> [f \in ScalarFields |->
                    CASE f = "address"    -> "Localisation analysee par IA"
                      [] f = "confidence" -> "0.5"
                      [] OTHER            -> Defaults[f]],
     positiveSuggestions |-> List(PositiveFiller),
     negativeSuggestions |-> List(NegativeFiller),
     error |-> msg]

\* lines 116-141: json is the value json.loads returned
Populate(json) ==
    IF json.kind # "object"
    THEN Fault("object has no attribute setdefault")
    ELSE LET pos == NormalizeSuggestions(
                        SetDefaultList(json.positiveSuggestions, PositiveFiller),
                        PositiveFiller)
             neg == NormalizeSuggestions(
                        SetDefaultList(json.negativeSuggestions, NegativeFiller),
                        NegativeFiller)
         IN  IF pos.kind = "raised" THEN pos
             ELSE IF neg.kind = "raised" THEN neg
             ELSE Ok([scalars |-> [f \in ScalarFields |->
                                     IF json.scalars[f] = Absent
                                     THEN Defaults[f] ELSE json.scalars[f]],
                      positiveSuggestions |-> pos.value,
                      negativeSuggestions |-> neg.value,
                      error |-> Absent])

\* lines 86-141, the try block after the call: r is what
\* client.chat.completions.create did
Sanitize(r) ==
    IF r.kind = "call_failed" THEN Fault("Connection error.")
    ELSE IF r.kind = "no_content"
    THEN Fault("NoneType object has no attribute strip")
    ELSE IF ~JsonLoadsOk(StripFence(Strip(r.text)))
    THEN Fault("Expecting value: line 1 column 1 (char 0)")
    ELSE Populate(r.json)

\* the except clause of a function that lets the fault through
Guess_Propagate(outcome) ==
    IF outcome.kind = "raised" THEN [kind |-> "raised", error |-> outcome.error]
    ELSE [kind |-> "dict"] @@ outcome.value

\* lines 143-158: the except Exception clause; the PlaceGuess returned
Guess(outcome) ==
    IF outcome.kind = "raised" THEN [kind |-> "dict"] @@ Fallback(outcome.error)
    ELSE [kind |-> "dict"] @@ outcome.value

\* analyze_image_with_gpt4_vision, from the return of the vision call on
analyze_image_with_gpt4_vision(r) == Guess(Sanitize(r))

NoAnalysis == [kind |-> "none"]

\* the answers of analyze_image (lines 166-192); has_success tells whether
\* the body has a "success" key at all
BadRequest ==
    [status |-> 400, has_success |-> FALSE, success |-> FALSE,
     error |-> "Image data required", analysis |-> NoAnalysis]
ServerError(msg) ==
    [status |-> 500, has_success |-> TRUE, success |-> FALSE,
     error |-> msg, analysis |-> NoAnalysis]
AnalysisResponse(result) ==
    [status |-> 200, has_success |-> TRUE, success |-> TRUE,
     error |-> "", analysis |-> result]
NoVResponse ==
    [status |-> 0, has_success |-> FALSE, success |-> FALSE,
     error |-> "", analysis |-> NoAnalysis]

\* the return value of analyze_image_with_gpt4_vision goes into the answer;
\* a fault it lets through is caught by the except clause of analyze_image
AnalyzeImageResponse(result) ==
    IF result.kind = "raised" THEN ServerError(result.error)
    ELSE AnalysisResponse(result)

\* ---- inputs of the vision pipeline
MaxSugLen == 4

ItemNames == <<"r1", "r2", "r3", "r4", "r5", "r6", "r7", "r8">>

\* what the reply can hold under positiveSuggestions / negativeSuggestions:
\* nothing, a list, a string, or a number/bool/null
SuggestionShapes ==
    {NoSuggestions, [kind |-> "scalar", items |-> <<>>, len |-> 0]}
        \cup {List(SubSeq(ItemNames, 1, n)) : n \in 0..MaxSugLen}
        \cup {[kind |-> "str", items |-> <<>>, len |-> n] : n \in 2..MaxSugLen}

NonObject ==
    [kind |-> "nonobject", scalars |-> [f \in ScalarFields |-> Absent],
     positiveSuggestions |-> NoSuggestions, negativeSuggestions |-> NoSuggestions]

\* the JSON objects a reply can hold: any subset of the fields
JsonObjects ==
    {[kind |-> "object",
      scalars |-> [f \in ScalarFields |-> IF f \in present THEN "reply" ELSE Absent],
      positiveSuggestions |-> pos, negativeSuggestions |-> neg] :
        present \in SUBSET ScalarFields, pos \in SuggestionShapes,
        neg \in SuggestionShapes}

OnlyBusinessName ==
    [kind |-> "object",
     scalars |-> [f \in ScalarFields |-> IF f = "businessName" THEN "reply" ELSE Absent],
     positiveSuggestions |-> NoSuggestions, negativeSuggestions |-> NoSuggestions]

\* the reply texts: optional blank line, optional opening fence (bare, json,
\* another tag), the payload (a JSON value, nothing, prose), optional closing
\* fence, optional blank line
ReplyTexts ==
    {lead \o open \o sep1 \o body \o sep2 \o close \o trail :
        lead \in {<<>>, <<"nl">>},
        open \in {<<>>, Fence, FenceJson, Fence \o <<"j", "s">>},
        sep1 \in {<<>>, <<"nl">>},
        body \in {<<"J">>, <<>>, <<"x">>},
        sep2 \in {<<>>, <<"nl">>},
        close \in {<<>>, Fence},
        trail \in {<<>>, <<"nl">>}}

\* what client.chat.completions.create can do: raise, answer without content,
\* answer with a text
VisionOutcomes ==
    {[kind |-> "call_failed", text |-> <<>>, json |-> NonObject],
     [kind |-> "no_content", text |-> <<>>, json |-> NonObject]}
    \cup {[kind |-> "text", text |-> <<"J">>, json |-> j] : j \in JsonObjects}
    \cup {[kind |-> "text", text |-> t, json |-> j] :
            t \in ReplyTexts, j \in {OnlyBusinessName, NonObject}}

NoReply == [kind |-> "none", text |-> <<>>, json |-> NonObject]

\* request.get_json() raises, gives nothing (None, {}), gives a dict without
\* "image", or a dict whose image is a string (bare base64 or a data URI) or
\* a number
Requests ==
    {[json |-> "raises", image |-> "none"],
     [json |-> "falsy", image |-> "none"],
     [json |-> "no_image", image |-> "none"],
     [json |-> "image", image |-> "str"],
     [json |-> "image", image |-> "data_uri"],
     [json |-> "image", image |-> "number"]}

VisIdle ==
    /\ vpc = "idle"
    /\ request = [json |-> "none", image |-> "none"]
    /\ vision_calls = 0
    /\ reply = NoReply
    /\ analysis = NoAnalysis
    /\ vresponse = NoVResponse

\* analyze_image up to the vision call (lines 166-180, 86): the request is
\* answered at once when it is refused, else the vision call is under way
AnalyzeImage ==
    /\ vpc = "idle"
    /\ \E req \in Requests :
          /\ request' = req
          /\ IF req.json = "raises"
             THEN /\ vresponse' = ServerError("415 Unsupported Media Type")
                  /\ vpc' = "done"
                  /\ UNCHANGED vision_calls
             ELSE IF req.json \in {"falsy", "no_image"}
             THEN /\ vresponse' = BadRequest
                  /\ vpc' = "done"
                  /\ UNCHANGED vision_calls
             ELSE IF req.image = "number"
             THEN /\ vresponse' = ServerError("argument of type int is not iterable")
                  /\ vpc' = "done"
                  /\ UNCHANGED vision_calls
             ELSE /\ vision_calls' = vision_calls + 1
                  /\ vpc' = "vision"
                  /\ UNCHANGED vresponse
    /\ UNCHANGED <<reply, analysis>>
    /\ UNCHANGED <<geoVars, conv, fenced, gpsVars>>

\* the vision call ends; the rest of analyze_image_with_gpt4_vision and of
\* analyze_image (lines 106-158, 182-185)
VisionReturns ==
    /\ vpc = "vision"
    /\ \E r \in VisionOutcomes :
          /\ reply' = r
          /\ analysis' = analyze_image_with_gpt4_vision(r)
          /\ vresponse' = AnalyzeImageResponse(analyze_image_with_gpt4_vision(r))
    /\ vpc' = "done"
    /\ UNCHANGED <<request, vision_calls>>
    /\ UNCHANGED <<geoVars, conv, fenced, gpsVars>>

\* the answer is sent; the next request can come
VisionFinish ==
    /\ vpc = "done"
    /\ vpc' = "idle"
    /\ request' = [json |-> "none", image |-> "none"]
    /\ vision_calls' = 0
    /\ reply' = NoReply
    /\ analysis' = NoAnalysis
    /\ vresponse' = NoVResponse
    /\ UNCHANGED <<geoVars, conv, fenced, gpsVars>>

\* ---- inputs of the sanitizer applied to one reply, bare and fenced
\* language tags after the opening fence: none, json, another one
FenceTags == {<<>>, <<"j", "s", "o", "n">>, <<"j", "s">>}

\* reply texts to wrap: a JSON value with or without blanks around it, prose,
\* nothing, a text that starts with the letters json
Payloads ==
    {<<"J">>, <<"nl", "J">>, <<"J", "nl">>, <<"sp", "J", "sp">>, <<"x">>, <<>>,
     <<"j", "s", "o", "n", "J">>}

\* the reply wrapped in a code fence: opening fence, tag, the reply, closing
\* fence at the end
Wrap(f) == Fence \o f.tag \o f.sep1 \o f.payload \o f.sep2 \o Fence

TextReply(t, j) == [kind |-> "text", text |-> t, json |-> j]

FenceIdle ==
    fenced = [tag |-> <<>>, sep1 |-> <<>>, payload |-> <<>>, sep2 |-> <<>>,
              json |-> NonObject, done |-> FALSE,
              plain |-> NoAnalysis, wrapped |-> NoAnalysis]

(***************************************************************************)
(* Reverse geocoding                                                       *)
(***************************************************************************)

\* max_retries=3, the default argument of _reverse_geocode_with_retry
max_retries == 3

\* type_mapping of _determine_place_type
type_mapping ==
    [t \in {"restaurant", "cafe", "fast_food", "hotel", "motel", "hostel",
            "shop", "supermarket", "mall", "tourism", "attraction", "museum",
            "hospital", "school", "university"} |->
        CASE t \in {"restaurant", "cafe", "fast_food"}    -> "restaurant"
          [] t \in {"hotel", "motel", "hostel"}           -> "hotel"
          [] t \in {"shop", "supermarket", "mall"}        -> "magasin"
          [] t \in {"tourism", "attraction", "museum"}    -> "attraction"
          [] t \in {"hospital", "school", "university"}   -> "service"]

\* BasePlaceType with the two lookups swapped: class is tried before type
BasePlaceType_ClassFirst(osm_type, osm_class) ==
    IF osm_class \in DOMAIN type_mapping THEN type_mapping[osm_class]
    ELSE IF osm_type \in DOMAIN type_mapping THEN type_mapping[osm_type]
    ELSE "unknown"

\* the first assignment of place_type: 'unknown', then type, else class
BasePlaceType(osm_type, osm_class) ==
    IF osm_type \in DOMAIN type_mapping THEN type_mapping[osm_type]
    ELSE IF osm_class \in DOMAIN type_mapping THEN type_mapping[osm_class]
    ELSE "unknown"

\* AmenityOverride that forgets to translate the shop amenities
AmenityOverride_RawShop(place_type, amenity) ==
    IF amenity # ""
    THEN IF amenity \in {"restaurant", "cafe", "fast_food"} THEN "restaurant"
         ELSE IF amenity \in {"hotel", "motel"} THEN "hotel"
         ELSE IF amenity \in {"shop", "supermarket"} THEN amenity
         ELSE place_type
    ELSE place_type

\* the amenity block, which runs after the type/class block and overwrites
\* place_type; "" is an absent (or empty) amenity
AmenityOverride(place_type, amenity) ==
    IF amenity # ""
    THEN IF amenity \in {"restaurant", "cafe", "fast_food"} THEN "restaurant"
         ELSE IF amenity \in {"hotel", "motel"} THEN "hotel"
         ELSE IF amenity \in {"shop", "supermarket"} THEN "magasin"
         ELSE place_type
    ELSE place_type

\* _determine_place_type(address_components, raw_data); "" is what
\* raw_data.get('type', '') gives for an absent key
_determine_place_type(address_components, raw_data) ==
    [place_type |-> AmenityOverride(BasePlaceType(raw_data.type, raw_data.class),
                                    address_components.amenity),
     osm_type   |-> raw_data.type,
     osm_class  |-> raw_data.class]

\* the part of get_address_from_coordinates after _reverse_geocode_with_retry:
\* loc is its return value, or kind "raised" when it let an exception through
GetAddressResult(loc, latitude, longitude) ==
    IF loc.kind = "raised"
    THEN [kind |-> "dict", success |-> FALSE,
          error |-> "Erreur lors du geocodage: fault"]
    ELSE IF loc.kind = "Location"
    THEN LET pt == _determine_place_type(loc.address, loc.raw)
         IN  [kind |-> "dict", success |-> TRUE,
              latitude |-> latitude, longitude |-> longitude,
              place_type |-> pt.place_type,
              osm_type |-> pt.osm_type, osm_class |-> pt.osm_class]
    ELSE [kind |-> "dict", success |-> FALSE,
          error |-> "Aucune adresse trouvee pour ces coordonnees"]

\* ExtractLocationResponse that turns a geocoding failure into a failed request
ExtractLocationResponse_FailRequest(res, latitude, longitude) ==
    IF ~res.success
    THEN [status |-> 500, success |-> FALSE, has_gps |-> FALSE,
          coordinates |-> <<>>,
          location |-> None,
          error |-> "Erreur serveur: " \o res.error]
    ELSE [status |-> 200, success |-> TRUE, has_gps |-> TRUE,
          coordinates |-> <<latitude, longitude>>,
          location |-> [kind |-> "CanonicalLocation",
                        place_type |-> res.place_type,
                        osm_type |-> res.osm_type,
                        osm_class |-> res.osm_class],
          error |-> ""]

\* the part of extract_location after get_address_from_coordinates
ExtractLocationResponse(res, latitude, longitude) ==
    IF ~res.success
    THEN [status |-> 200, success |-> TRUE, has_gps |-> TRUE,
          coordinates |-> <<latitude, longitude>>,
          location |-> None,
          error |-> "Impossible de determiner l'adresse: " \o res.error]
    ELSE [status |-> 200, success |-> TRUE, has_gps |-> TRUE,
          coordinates |-> <<latitude, longitude>>,
          location |-> [kind |-> "CanonicalLocation",
                        place_type |-> res.place_type,
                        osm_type |-> res.osm_type,
                        osm_class |-> res.osm_class],
          error |-> ""]

\* the part of geocode_coordinates after get_address_from_coordinates:
\* jsonify(location_result)
GeocodeResponse(res) ==
    IF res.success
    THEN [status |-> 200, success |-> TRUE, has_gps |-> TRUE,
          coordinates |-> <<res.latitude, res.longitude>>,
          location |-> [kind |-> "CanonicalLocation",
                        place_type |-> res.place_type,
                        osm_type |-> res.osm_type,
                        osm_class |-> res.osm_class],
          error |-> ""]
    ELSE [status |-> 200, success |-> FALSE, has_gps |-> FALSE,
          coordinates |-> <<>>, location |-> None, error |-> res.error]

RouteResponse(route, res, latitude, longitude) ==
    IF route = "extract_location"
    THEN ExtractLocationResponse(res, latitude, longitude)
    ELSE GeocodeResponse(res)

\* ---- inputs of the model
MaxCoord == 1
CoordVals == 0..MaxCoord

OsmTags == DOMAIN type_mapping \cup {"", "bar", "amenity", "place"}
Amenities == {"", "restaurant", "cafe", "fast_food", "hotel", "motel", "shop",
              "supermarket", "hostel", "museum", "bar"}

\* what geolocator.reverse can do: return a Location, return None (nothing
\* found), raise GeocoderTimedOut, raise GeocoderServiceError, raise anything
\* else (ValueError for coordinates out of range, ...)
Locations ==
    [kind : {"Location"},
     raw : [type : OsmTags, class : OsmTags],
     address : [amenity : Amenities]]
ProviderOutcomes ==
    Locations \cup {None, [kind |-> "GeocoderTimedOut"],
                    [kind |-> "GeocoderServiceError"], [kind |-> "Exception"]}

\* ---- the requests of the two location routes
\* is_json: request.is_json (the Content-Type); body: what request.get_json()
\* does (raises on a body that is no JSON or, in geocode_coordinates, on a
\* wrong Content-Type; returns null/None; returns a dict); image: data['image']
\* (absent, a number, base64 with wrong padding, base64, a data URI);
\* has_gps: whether extract_gps_from_image finds coordinates in the image;
\* latitude, longitude: the values of the keys (absent, a number, a numeric
\* text, another text, null)
ImageKinds == {"absent", "number", "bad_base64", "base64", "data_uri"}
NumberKinds == {"absent", "number", "numeric_text", "text", "null"}

ExtractLocationRequests ==
    [route : {"extract_location"}, is_json : BOOLEAN,
     body : {"raises", "null", "dict"}, image : ImageKinds, has_gps : BOOLEAN,
     latitude : {"absent"}, longitude : {"absent"}]

GeocodeRequests ==
    [route : {"geocode"}, is_json : {TRUE},
     body : {"raises", "null", "dict"}, image : {"absent"}, has_gps : {FALSE},
     latitude : NumberKinds, longitude : NumberKinds]

LocationRequests == ExtractLocationRequests \cup GeocodeRequests

NoLRequest ==
    [route |-> "none", is_json |-> FALSE, body |-> "null", image |-> "absent",
     has_gps |-> FALSE, latitude |-> "absent", longitude |-> "absent"]

Refusal(code, msg) ==
    [status |-> code, success |-> FALSE, has_gps |-> FALSE,
     coordinates |-> <<>>, location |-> None, error |-> msg]

\* status 0: the route goes on to get_address_from_coordinates
Proceed == Refusal(0, "")

\* extract_location, lines 44-86: the answers given before the geocoding
ExtractLocationValidation(req) ==
    IF ~req.is_json
    THEN Refusal(400, "Content-Type doit etre application/json")
    ELSE IF req.body = "raises"
    THEN Refusal(500, "Erreur serveur: 400 Bad Request")
    ELSE IF req.body = "null"
    THEN Refusal(500, "Erreur serveur: argument of type NoneType is not iterable")
    ELSE IF req.image = "absent"
    THEN Refusal(400, "Champ image manquant dans la requete")
    ELSE IF req.image \in {"number", "bad_base64"}
    THEN Refusal(400, "Erreur lors du decodage de l'image")
    ELSE IF ~req.has_gps
    THEN [status |-> 200, success |-> TRUE, has_gps |-> FALSE,
          coordinates |-> <<>>, location |-> None,
          error |-> "Aucune donnee GPS trouvee dans l'image"]
    ELSE Proceed

\* float(x): a number or a numeric text converts, another text raises
\* ValueError, null raises TypeError
FloatOf(x) ==
    CASE x \in {"number", "numeric_text"} -> "float"
      [] x = "text" -> "ValueError"
      [] OTHER -> "TypeError"

\* geocode_coordinates, lines 166-176 and 182-192
GeocodeValidation(req) ==
    IF req.body = "raises"
    THEN Refusal(500, "Erreur serveur: 415 Unsupported Media Type")
    ELSE IF req.body = "null" \/ req.latitude = "absent" \/ req.longitude = "absent"
    THEN Refusal(400, "Latitude et longitude requises")
    ELSE IF FloatOf(req.latitude) = "ValueError"
    THEN Refusal(400, "Latitude et longitude doivent etre des nombres")
    ELSE IF FloatOf(req.latitude) = "TypeError"
    THEN Refusal(500, "Erreur serveur: float() argument must be a string or a number")
    ELSE IF FloatOf(req.longitude) = "ValueError"
    THEN Refusal(400, "Latitude et longitude doivent etre des nombres")
    ELSE IF FloatOf(req.longitude) = "TypeError"
    THEN Refusal(500, "Erreur serveur: float() argument must be a string or a number")
    ELSE Proceed

Validation(req) ==
    IF req.route = "extract_location" THEN ExtractLocationValidation(req)
    ELSE GeocodeValidation(req)

NoResponse == [status |-> 0, success |-> FALSE, has_gps |-> FALSE,
               coordinates |-> <<>>, location |-> None, error |-> ""]
NoResult == [kind |-> "dict", success |-> FALSE, error |-> ""]

ConvIdle == conv = [fn |-> "none", value |-> <<>>, ref |-> "", done |-> FALSE, out |-> None]

GeoIdle ==
    /\ gpc = "idle"
    /\ caller = "none"
    /\ coords = <<0, 0>>
    /\ attempt = 0
    /\ outcomes = <<>>
    /\ sleeps = 0
    /\ location = None
    /\ location_result = NoResult
    /\ response = NoResponse
    /\ lrequest = NoLRequest

\* a route calls location_service.get_address_from_coordinates(lat, lon),
\* which enters the loop of _reverse_geocode_with_retry
GetAddressFromCoordinates ==
    /\ gpc = "idle"
    /\ UNCHANGED <<conv, fenced, gpsVars, visVars>>
    /\ \E route \in {"geocode", "extract_location"}, lat \in CoordVals, lon \in CoordVals :
          /\ caller' = route
          /\ coords' = <<lat, lon>>
          /\ lrequest' \in {req \in LocationRequests :
                                req.route = route /\ Validation(req).status = 0}
    /\ gpc' = "reverse"
    /\ attempt' = 0
    /\ outcomes' = <<>>
    /\ sleeps' = 0
    /\ location' = None
    /\ location_result' = NoResult
    /\ response' = NoResponse

\* _reverse_geocode_with_retry returns (or raises): the rest of
\* get_address_from_coordinates and of the route run to the response
ReturnLocation(loc) ==
    /\ location' = loc
    /\ location_result' = GetAddressResult(loc, coords[1], coords[2])
    /\ response' = RouteResponse(caller, GetAddressResult(loc, coords[1], coords[2]),
                                 coords[1], coords[2])
    /\ gpc' = "done"
    /\ UNCHANGED <<attempt, sleeps>>

\* Disposition that re-raises the last timeout instead of returning None
Disposition_RaiseOnExhaust(o, att) ==
    CASE o.kind = "GeocoderTimedOut" ->
            IF att < max_retries - 1
            THEN [do |-> "sleep", value |-> None]
            ELSE [do |-> "return", value |-> [kind |-> "raised"]]
      [] o.kind = "GeocoderServiceError" -> [do |-> "return", value |-> None]
      [] o.kind = "Exception" -> [do |-> "return", value |-> [kind |-> "raised"]]
      [] OTHER -> [do |-> "return", value |-> o]

\* Disposition that retries every GeocoderServiceError like a timeout
Disposition_RetryServiceError(o, att) ==
    CASE o.kind \in {"GeocoderTimedOut", "GeocoderServiceError"} ->
            IF att < max_retries - 1
            THEN [do |-> "sleep", value |-> None]
            ELSE [do |-> "return", value |-> None]
      [] o.kind = "Exception" -> [do |-> "return", value |-> [kind |-> "raised"]]
      [] OTHER -> [do |-> "return", value |-> o]

\* the try block of one loop pass: what the code does with the outcome o of
\* self.geolocator.reverse(...) in loop pass att
Disposition(o, att) ==
    CASE o.kind = "GeocoderTimedOut" ->
            IF att < max_retries - 1
            THEN [do |-> "sleep", value |-> None]
            ELSE [do |-> "return", value |-> None]
      [] o.kind = "GeocoderServiceError" -> [do |-> "return", value |-> None]
      [] o.kind = "Exception" -> [do |-> "return", value |-> [kind |-> "raised"]]
      [] OTHER -> [do |-> "return", value |-> o]

\* one loop pass: the provider call and its except clauses
Reverse ==
    /\ gpc = "reverse"
    /\ UNCHANGED <<conv, fenced, gpsVars, visVars>>
    /\ \E o \in ProviderOutcomes :
          /\ outcomes' = Append(outcomes, o)
          /\ IF Disposition(o, attempt).do = "sleep"
             THEN /\ gpc' = "sleep"
                  /\ UNCHANGED <<attempt, sleeps, location, location_result, response>>
             ELSE ReturnLocation(Disposition(o, attempt).value)
    /\ UNCHANGED <<caller, coords, lrequest>>

\* time.sleep(1); continue: the next loop pass, or the return None after the
\* loop when range(max_retries) is exhausted
Sleep ==
    /\ gpc = "sleep"
    /\ UNCHANGED <<conv, fenced, gpsVars, visVars>>
    /\ sleeps' = sleeps + 1
    /\ IF attempt + 1 < max_retries
       THEN /\ attempt' = attempt + 1
            /\ gpc' = "reverse"
            /\ UNCHANGED <<location, location_result, response>>
       ELSE /\ location' = None
            /\ location_result' = GetAddressResult(None, coords[1], coords[2])
            /\ response' = RouteResponse(caller, GetAddressResult(None, coords[1], coords[2]),
                                         coords[1], coords[2])
            /\ gpc' = "done"
            /\ UNCHANGED attempt
    /\ UNCHANGED <<caller, coords, outcomes, lrequest>>

\* the response has been sent; the service waits for the next request
GeoFinish ==
    /\ gpc = "done"
    /\ UNCHANGED <<conv, fenced, gpsVars, visVars>>
    /\ gpc' = "idle"
    /\ caller' = "none"
    /\ coords' = <<0, 0>>
    /\ attempt' = 0
    /\ outcomes' = <<>>
    /\ sleeps' = 0
    /\ location' = None
    /\ location_result' = NoResult
    /\ response' = NoResponse
    /\ lrequest' = NoLRequest

\* extract_location / geocode_coordinates answer without calling
\* get_address_from_coordinates: the request is refused, or the image has no GPS
AnswerWithoutGeocoding ==
    /\ gpc = "idle"
    /\ UNCHANGED <<conv, fenced, gpsVars, visVars>>
    /\ \E req \in LocationRequests :
          /\ Validation(req).status # 0
          /\ lrequest' = req
          /\ caller' = req.route
          /\ response' = Validation(req)
    /\ gpc' = "done"
    /\ UNCHANGED <<coords, attempt, outcomes, sleeps, location, location_result>>

InitGeo == GeoIdle /\ ConvIdle /\ FenceIdle /\ GpsIdle /\ VisIdle

NextGeo ==
    \/ GetAddressFromCoordinates
    \/ AnswerWithoutGeocoding
    \/ Reverse
    \/ Sleep
    \/ GeoFinish

SpecGeo == InitGeo /\ [][NextGeo]_vars

InitGps == GeoIdle /\ ConvIdle /\ FenceIdle /\ GpsIdle /\ VisIdle

NextGps ==
    \/ ExtractGpsFromImage
    \/ RunStrategyA
    \/ RunStrategyB
    \/ GpsFinish

SpecGps == InitGps /\ [][NextGps]_vars

InitVision == GeoIdle /\ ConvIdle /\ FenceIdle /\ GpsIdle /\ VisIdle

NextVision ==
    \/ AnalyzeImage
    \/ VisionReturns
    \/ VisionFinish

SpecVision == InitVision /\ [][NextVision]_vars

\* ---- the three routes in one worker that serves one request at a time
VisionStep == gpc = "idle" /\ NextVision

LocationStep == vpc = "idle" /\ NextGeo

InitRoutes == GeoIdle /\ ConvIdle /\ FenceIdle /\ GpsIdle /\ VisIdle

NextRoutes ==
    \/ VisionStep
    \/ LocationStep

SpecRoutes == InitRoutes /\ [][NextRoutes]_vars

\* ---- the DMS converters applied to one drawn input
InitDms ==
    /\ GeoIdle
    /\ FenceIdle
    /\ GpsIdle
    /\ VisIdle
    /\ \/ \E v \in SeqsUpTo3(PilComponents), r \in RefVals :
             conv = [fn |-> "_dms_to_decimal", value |-> v, ref |-> r,
                     done |-> FALSE, out |-> None]
       \/ \E v \in SeqsUpTo3(ExifComponents), r \in RefVals :
             conv = [fn |-> "_convert_to_degrees", value |-> v, ref |-> r,
                     done |-> FALSE, out |-> None]

ApplyDmsToDecimal ==
    /\ conv.fn = "_dms_to_decimal"
    /\ ~conv.done
    /\ conv' = [conv EXCEPT !.done = TRUE, !.out = _dms_to_decimal(conv.value, conv.ref)]
    /\ UNCHANGED <<geoVars, fenced, gpsVars, visVars>>

ApplyConvertToDegrees ==
    /\ conv.fn = "_convert_to_degrees"
    /\ ~conv.done
    /\ conv' = [conv EXCEPT !.done = TRUE, !.out = _convert_to_degrees(conv.value, conv.ref)]
    /\ UNCHANGED <<geoVars, fenced, gpsVars, visVars>>

NextDms ==
    \/ ApplyDmsToDecimal
    \/ ApplyConvertToDegrees

SpecDms == InitDms /\ [][NextDms]_vars

\* ---- analyze_image_with_gpt4_vision applied to one drawn reply, bare and
\* wrapped in a code fence
InitFence ==
    /\ GeoIdle
    /\ ConvIdle
    /\ GpsIdle
    /\ VisIdle
    /\ \E tag \in FenceTags, sep1 \in {<<>>, <<"nl">>}, p \in Payloads,
          sep2 \in {<<>>, <<"nl">>}, j \in {OnlyBusinessName, NonObject} :
          fenced = [tag |-> tag, sep1 |-> sep1, payload |-> p, sep2 |-> sep2,
                    json |-> j, done |-> FALSE,
                    plain |-> NoAnalysis, wrapped |-> NoAnalysis]

ApplySanitizer ==
    /\ ~fenced.done
    /\ fenced' = [fenced EXCEPT
                    !.done = TRUE,
                    !.plain = analyze_image_with_gpt4_vision(
                                  TextReply(fenced.payload, fenced.json)),
                    !.wrapped = analyze_image_with_gpt4_vision(
                                  TextReply(Wrap(fenced), fenced.json))]
    /\ UNCHANGED <<geoVars, conv, gpsVars, visVars>>

NextFence == ApplySanitizer

SpecFence == InitFence /\ [][NextFence]_vars

(***************************************************************************)
(* Properties of reverse geocoding                                         *)
(***************************************************************************)

Last(seq) == seq[Len(seq)]

TimedOut(i) == outcomes[i].kind = "GeocoderTimedOut"

\* C1: the provider is called at most 3 times; every call but the last one
\* ended in a timeout; k <= 2 timeouts followed by a success return that
\* location; 3 timeouts return None, which get_address_from_coordinates
\* reports as success = false, and nothing is raised.
C1_RetryContract ==
    /\ Len(outcomes) <= 3
    /\ \A i \in 1..(Len(outcomes) - 1) : TimedOut(i)
    /\ (outcomes # <<>> /\ Last(outcomes).kind = "Location")
          => /\ gpc = "done"
             /\ location = Last(outcomes)
             /\ location_result.success
    /\ (Len(outcomes) = 3 /\ \A i \in 1..3 : TimedOut(i))
          => /\ gpc = "done"
             /\ location = None
             /\ location_result.success = FALSE
             /\ response.status = 200

\* two timeouts, then a success that is returned
C1_Witness ==
    /\ gpc = "done"
    /\ Len(outcomes) = 3
    /\ TimedOut(1) /\ TimedOut(2)
    /\ outcomes[3].kind = "Location"
    /\ location = outcomes[3]

\* C2: once an attempt ends in GeocoderServiceError it is the last provider
\* call, no sleep follows it (every sleep so far follows a timeout that came
\* before it), and the function has returned None.
C2_ServiceErrorNotRetried ==
    \A i \in 1..Len(outcomes) :
        outcomes[i].kind = "GeocoderServiceError"
            => /\ i = Len(outcomes)
               /\ sleeps = i - 1
               /\ gpc = "done"
               /\ location = None

\* a service error on the second attempt, after one timeout and one sleep
C2_Witness ==
    /\ gpc = "done"
    /\ Len(outcomes) = 2
    /\ TimedOut(1)
    /\ outcomes[2].kind = "GeocoderServiceError"
    /\ sleeps = 1

\* the category table and the amenity table as the specification states them
CategoryOf(t) ==
    CASE t \in {"restaurant", "cafe", "fast_food"}  -> "restaurant"
      [] t \in {"hotel", "motel", "hostel"}         -> "hotel"
      [] t \in {"shop", "supermarket", "mall"}      -> "magasin"
      [] t \in {"tourism", "attraction", "museum"}  -> "attraction"
      [] t \in {"hospital", "school", "university"} -> "service"
      [] OTHER -> "none"

AmenityOf(a) ==
    CASE a \in {"restaurant", "cafe", "fast_food"} -> "restaurant"
      [] a \in {"hotel", "motel"}                  -> "hotel"
      [] a \in {"shop", "supermarket"}             -> "magasin"
      [] OTHER -> "none"

PriorityPlaceType(type, class, amenity) ==
    IF AmenityOf(amenity) # "none" THEN AmenityOf(amenity)
    ELSE IF CategoryOf(type) # "none" THEN CategoryOf(type)
    ELSE IF CategoryOf(class) # "none" THEN CategoryOf(class)
    ELSE "unknown"

\* C8: the place_type of a geocoded location is the amenity-table mapping of
\* the amenity when it has one, else the category of type, else the category
\* of class, else "unknown".
C8_PlaceTypePriority ==
    (gpc = "done" /\ location.kind = "Location")
        => location_result.place_type =
              PriorityPlaceType(location.raw.type, location.raw.class,
                                location.address.amenity)

\* an amenity that maps overrides a type that maps to something else
C8_Witness ==
    /\ gpc = "done"
    /\ location.kind = "Location"
    /\ location.raw.type = "museum"
    /\ location.raw.class = "shop"
    /\ location.address.amenity = "hotel"
    /\ location_result.place_type = "hotel"

PlaceTypes == {"restaurant", "hotel", "magasin", "attraction", "service", "unknown"}

\* C9: every location record the geocoding path produces, in the result of
\* get_address_from_coordinates and in the answer of the route, has a
\* place_type of the closed set.
C9_PlaceTypeClosed ==
    /\ (gpc = "done" /\ location_result.success)
          => location_result.place_type \in PlaceTypes
    /\ response.location.kind = "CanonicalLocation"
          => response.location.place_type \in PlaceTypes

\* /extract-location answers with a location whose type came from the class
C9_Witness ==
    /\ gpc = "done"
    /\ caller = "extract_location"
    /\ response.location.kind = "CanonicalLocation"
    /\ location.raw.type = "place"
    /\ location.raw.class = "tourism"
    /\ response.location.place_type = "attraction"

(***************************************************************************)
(* Properties of the DMS conversion                                        *)
(***************************************************************************)

\* the three components are there and are numbers
ConvNumeric ==
    /\ Len(conv.value) >= 3
    /\ \A i \in 1..3 :
          IF conv.fn = "_dms_to_decimal"
          THEN conv.value[i].kind = "float"
          ELSE conv.value[i].kind = "Ratio" /\ conv.value[i].den # 0

\* degrees + minutes/60 + seconds/3600 over the common denominator
\* 3600 * d1 * d2 * d3
ExpectedNum ==
    LET c == conv.value
    IN  3600 * c[1].num * c[2].den * c[3].den
          + 60 * c[2].num * c[1].den * c[3].den
          + c[3].num * c[1].den * c[2].den

ExpectedDen == 3600 * conv.value[1].den * conv.value[2].den * conv.value[3].den

ExpectedSign == IF conv.ref \in {"S", "W"} THEN 0 - 1 ELSE 1

\* C10: with three numeric components and a reference character, the
\* converters return degrees + minutes/60 + seconds/3600, negated exactly
\* for S and W; (40,30,0,N) gives 40.5 and (40,30,0,S) gives -40.5; with a
\* component missing or not numeric they return None.
C10_DmsConversion ==
    conv.done =>
        /\ (ConvNumeric /\ conv.ref # "")
              => /\ conv.out.kind = "float"
                 /\ conv.out.den > 0
                 /\ conv.out = Float(ExpectedSign * ExpectedNum, ExpectedDen)
        /\ ~ConvNumeric => conv.out = None
        /\ (ConvNumeric /\ conv.ref \in {"N", "S"}
               /\ <<conv.value[1].num, conv.value[2].num, conv.value[3].num>> = <<40, 30, 0>>
               /\ \A i \in 1..3 : conv.value[i].den = 1)
              => 2 * conv.out.num = ExpectedSign * 81 * conv.out.den

\* (40, 30, 0, S) converted from exifread ratios to -40.5
C10_Witness ==
    /\ conv.done
    /\ conv.fn = "_convert_to_degrees"
    /\ conv.ref = "S"
    /\ ConvNumeric
    /\ <<conv.value[1].num, conv.value[2].num, conv.value[3].num>> = <<40, 30, 0>>
    /\ \A i \in 1..3 : conv.value[i].den = 1
    /\ conv.out.kind = "float"
    /\ 2 * conv.out.num = (0 - 81) * conv.out.den

(***************************************************************************)
(* Properties of the EXIF GPS extraction                                   *)
(***************************************************************************)

\* strategy A reads both coordinates out of the image
AYieldsUsable ==
    /\ image.pil.kind = "exif"
    /\ StrategyAYield(image.pil)[1] # None
    /\ StrategyAYield(image.pil)[2] # None

\* C3: the strategies run in the order A, B; B runs only when A has yielded
\* no usable coordinate; when A yields one, the result is A's coordinate.
C3_StrategyOrder ==
    /\ consulted \in {<<>>, <<"A">>, <<"A", "B">>}
    /\ (Len(consulted) = 2 \/ xpc = "B") => (~AYieldsUsable /\ ~UsableA(yieldA))
    /\ (xpc = "done" /\ AYieldsUsable)
          => /\ consulted = <<"A">>
             /\ gps_result = Found(yieldA[1], yieldA[2])
             /\ yieldA = StrategyAYield(image.pil)

\* strategy A found (40,30,0,S / 2,21,8,W) and exifread was not run, though
\* it would have found another coordinate
C3_Witness ==
    /\ xpc = "done"
    /\ consulted = <<"A">>
    /\ AYieldsUsable
    /\ image.exifread.kind = "tags"
    /\ StrategyB(image.exifread).has_gps
    /\ StrategyB(image.exifread) # gps_result
    /\ gps_result = Found(Float(0 - 81, 2), yieldA[2])

\* C4: a result with has_gps = true carries a latitude and a longitude that
\* were both converted (neither is None).
C4_FoundHasBothCoordinates ==
    gps_result.has_gps => (gps_result.latitude # None /\ gps_result.longitude # None)

\* a fault was raised inside the strategy that ran last
FaultedExtraction ==
    \/ consulted = <<"A">> /\ image.pil.kind = "fault"
    \/ consulted = <<"A", "B">> /\ image.exifread.kind = "fault"

\* C5: extract_gps_from_image always returns a result dict, and after a fault
\* in either strategy that result has has_gps = false and an error string.
C5_NeverRaises ==
    xpc = "done" =>
        /\ gps_result.kind = "dict"
        /\ FaultedExtraction => (~gps_result.has_gps /\ gps_result.error # "")

\* exifread faulted after strategy A found nothing
C5_Witness ==
    /\ xpc = "done"
    /\ consulted = <<"A", "B">>
    /\ image.exifread.kind = "fault"
    /\ gps_result.kind = "dict"
    /\ ~gps_result.has_gps

(***************************************************************************)
(* Properties of the vision pipeline                                       *)
(***************************************************************************)

\* the vision call failed, or its reply holds no JSON object: no content, an
\* empty text, prose, a JSON value that is not an object
ReplyUnusable ==
    \/ reply.kind \in {"call_failed", "no_content"}
    \/ /\ reply.kind = "text"
       /\ \/ \A i \in 1..Len(reply.text) : reply.text[i] # "J"
          \/ reply.json.kind # "object"

\* C6: when the vision call fails or its reply cannot be parsed, or anything
\* else faults in the sanitizer, the function returns the fixed fallback
\* guess with confidence 0.5 and a non-empty error, and the route answers
\* 200 with success = true and that guess.
C6_FallbackOnFailure ==
    (vpc = "done" /\ reply.kind # "none"
        /\ (ReplyUnusable \/ Sanitize(reply).kind = "raised"))
        => /\ analysis.kind = "dict"
           /\ analysis.scalars["confidence"] = "0.5"
           /\ analysis.error \notin {Absent, ""}
           /\ analysis = [kind |-> "dict"] @@ Fallback(analysis.error)
           /\ vresponse.status = 200
           /\ vresponse.has_success /\ vresponse.success
           /\ vresponse.analysis = analysis

\* the vision capability was unreachable and the route answered 200
C6_Witness ==
    /\ vpc = "done"
    /\ reply.kind = "call_failed"
    /\ vresponse.status = 200
    /\ vresponse.success
    /\ vresponse.analysis.scalars["confidence"] = "0.5"
    /\ vresponse.analysis.error # ""

GeocodingFailed ==
    /\ gpc = "done"
    /\ outcomes # <<>>
    /\ Last(outcomes).kind # "Location"

\* C11: in /extract-location, when coordinates were extracted and reverse
\* geocoding fails, the answer is 200 with success = true, has_gps = true,
\* the extracted coordinates, location = null and a non-empty error.
C11_PartialResultDelivered ==
    (GeocodingFailed /\ caller = "extract_location")
        => /\ response.status = 200
           /\ response.success
           /\ response.has_gps
           /\ response.coordinates = coords
           /\ response.location = None
           /\ response.error # ""

\* three timeouts in /extract-location, answered with the coordinates alone
C11_Witness ==
    /\ gpc = "done"
    /\ caller = "extract_location"
    /\ Len(outcomes) = 3
    /\ \A i \in 1..3 : TimedOut(i)
    /\ coords = <<1, 0>>
    /\ response.success
    /\ response.coordinates = <<1, 0>>
    /\ response.location = None

\* the input of /analyze-image is missing or malformed: no JSON body, no
\* image field, an image that is no text
MalformedAnalyzeRequest ==
    \/ request.json \in {"raises", "falsy", "no_image"}
    \/ request.json = "image" /\ request.image = "number"

\* the input of /extract-location or /geocode is missing or malformed
MalformedLocationRequest ==
    \/ /\ lrequest.route = "extract_location"
       /\ \/ ~lrequest.is_json
          \/ lrequest.body # "dict"
          \/ lrequest.image \in {"absent", "number", "bad_base64"}
    \/ /\ lrequest.route = "geocode"
       /\ \/ lrequest.body # "dict"
          \/ lrequest.latitude \in {"absent", "text", "null"}
          \/ lrequest.longitude \in {"absent", "text", "null"}

\* C12: a request of /analyze-image, /extract-location or /geocode whose
\* input is missing or malformed is answered 400 with a body holding
\* success = false and an error message, and neither the vision model nor
\* the geocoding provider is called for it.
C12_MalformedAnswered400 ==
    /\ (vpc = "done" /\ MalformedAnalyzeRequest)
          => /\ vresponse.status = 400
             /\ vresponse.has_success /\ ~vresponse.success
             /\ vresponse.error # ""
             /\ vision_calls = 0
    /\ (gpc = "done" /\ MalformedLocationRequest)
          => /\ response.status = 400
             /\ ~response.success
             /\ response.error # ""
             /\ outcomes = <<>>

(***************************************************************************)
(* Properties of the fence stripping                                       *)
(***************************************************************************)

\* C13: for every reply text, the result of the sanitizer for the reply
\* wrapped in a code fence (opening fence with or without a language tag,
\* closing fence at the end) is identical to its result for the same reply
\* unwrapped.
C13_FenceTransparent ==
    fenced.done => fenced.wrapped = fenced.plain

(***************************************************************************)
(* Properties of the fallback from strategy A to strategy B                *)
(***************************************************************************)

\* strategy B finds no complete tag set or raises
StrategyBFails ==
    \/ image.exifread.kind = "fault"
    \/ ~StrategyB(image.exifread).has_gps

\* C14 as stated: whenever strategy A yields no usable coordinate, for any
\* reason, a decoding fault inside strategy A included, strategy B is
\* attempted before a result is returned; NotFound is returned only after
\* both strategies were attempted and both failed.
C14_BAlwaysAttempted ==
    xpc = "done" =>
        /\ ~AYieldsUsable => consulted = <<"A", "B">>
        /\ ~gps_result.has_gps
              => /\ consulted = <<"A", "B">>
                 /\ ~AYieldsUsable
                 /\ StrategyBFails

\* C14 amended: when strategy A ends without a fault and yields no usable
\* coordinate, strategy B is attempted before a result is returned; a fault
\* inside strategy A ends the extraction with NotFound, strategy B not
\* attempted; NotFound is returned only after such a fault or after both
\* strategies were attempted and both failed.
C14_FallbackUnlessFault ==
    xpc = "done" =>
        /\ (image.pil.kind # "fault" /\ ~AYieldsUsable) => consulted = <<"A", "B">>
        /\ image.pil.kind = "fault"
              => /\ consulted = <<"A">>
                 /\ ~gps_result.has_gps
        /\ ~gps_result.has_gps
              => \/ /\ consulted = <<"A">>
                    /\ image.pil.kind = "fault"
                 \/ /\ consulted = <<"A", "B">>
                    /\ ~AYieldsUsable
                    /\ StrategyBFails

\* strategy A read a latitude but no longitude (a component is no number),
\* strategy B ran on the same image and found its coordinate
C14_Witness ==
    /\ xpc = "done"
    /\ consulted = <<"A", "B">>
    /\ image.pil.kind = "exif"
    /\ yieldA[1] # None
    /\ yieldA[2] = None
    /\ gps_result.has_gps
    /\ gps_result = StrategyB(image.exifread)
    /\ gps_result.latitude # None

=============================================================================
